---- MODULE Spec2Model ----
(***************************************************************************)
(* A model of pysal.weights.W (src/pysal/weights/__init__.py): the spatial *)
(* weights container, its id ordering, its transformation cache, its       *)
(* characteristics and its iteration sessions.                             *)
(*                                                                         *)
(* Numbers.  Weights are Python floats.  They are modelled as exact        *)
(* rationals <<numerator, denominator>> in lowest terms, so +, * and / are  *)
(* exact; math.sqrt, whose result is irrational in general, is rounded     *)
(* down to MantissaBits significant bits, the way a float square root is   *)
(* rounded to 53.                                                          *)
(*                                                                         *)
(* Dictionaries.  Ids are small integers, and a CPython 2 dictionary keyed  *)
(* by small integers iterates in ascending key order: DictOrder.           *)
(***************************************************************************)
EXTENDS Integers, Sequences, FiniteSets, TLC

\* ------------------------------------------------------------------ bounds
\* significant bits kept by the modelled math.sqrt (a float keeps 53)
MantissaBits == 2
\* a transformation is explored only while every numerator and denominator of
\* the weights it produces is at most MaxTerm in absolute value
MaxTerm == 16
\* how many iteration sessions may be open on the container
MaxSessions == 2

\* --------------------------------------------------------------- rationals
Abs(x) == IF x < 0 THEN -x ELSE x

RECURSIVE GCD(_, _)
GCD(a, b) == IF b = 0 THEN a ELSE GCD(b, a % b)

\* n/d in lowest terms with a positive denominator, for d # 0
Norm(n, d) ==
    LET s == IF d < 0 THEN -1 ELSE 1
        g == GCD(Abs(n), Abs(d))
    IN  <<(s * n) \div g, (s * d) \div g>>

Rat(n) == <<n, 1>>
Zero == Rat(0)
One == Rat(1)
RAdd(a, b) ==
    LET g == GCD(a[2], b[2])
    IN  Norm(a[1] * (b[2] \div g) + b[1] * (a[2] \div g), (a[2] \div g) * b[2])
RMul(a, b) ==
    LET g1 == GCD(Abs(a[1]), b[2])
        g2 == GCD(Abs(b[1]), a[2])
    IN  IF a[1] = 0 \/ b[1] = 0 THEN Zero
        ELSE <<(a[1] \div g1) * (b[1] \div g2), (a[2] \div g2) * (b[2] \div g1)>>
\* a / b for b # 0
RDiv(a, b) == RMul(a, Norm(b[2], b[1]))

RECURSIVE ISqrtBetween(_, _, _)
ISqrtBetween(x, lo, hi) ==
    IF lo >= hi THEN lo
    ELSE LET mid == (lo + hi + 1) \div 2
         IN  IF mid * mid <= x THEN ISqrtBetween(x, mid, hi)
             ELSE ISqrtBetween(x, lo, mid - 1)

\* the integer part of the square root of x >= 0
ISqrt(x) == ISqrtBetween(x, 0, IF x < 40000 THEN x ELSE 40000)

\* the integer part of sqrt(a) * 2^e
Mantissa(a, e) ==
    IF e >= 0 THEN ISqrt((a[1] * 4 ^ e) \div a[2])
    ELSE ISqrt(a[1] \div (a[2] * 4 ^ (-e)))

\* the exponent e at which sqrt(a) * 2^e has exactly MantissaBits bits, a > 0
RECURSIVE Exponent(_, _)
Exponent(a, e) ==
    IF Mantissa(a, e) >= 2 ^ MantissaBits THEN Exponent(a, e - 1)
    ELSE IF Mantissa(a, e) < 2 ^ (MantissaBits - 1) THEN Exponent(a, e + 1)
    ELSE e

\* math.sqrt on a >= 0, rounded down to MantissaBits significant bits
Sqrt(a) ==
    IF a[1] = 0 THEN Zero
    ELSE LET e == Exponent(a, 0)
         IN  IF e >= 0 THEN Norm(Mantissa(a, e), 2 ^ e)
             ELSE Rat(Mantissa(a, e) * 2 ^ (-e))

\* --------------------------------------------------------------- sequences
RECURSIVE SumSeq(_)
SumSeq(s) == IF s = <<>> THEN Zero ELSE RAdd(Head(s), SumSeq(Tail(s)))

RECURSIVE SumInts(_)
SumInts(s) == IF s = <<>> THEN 0 ELSE Head(s) + SumInts(Tail(s))

RECURSIVE Concat(_)
Concat(ss) == IF ss = <<>> THEN <<>> ELSE Head(ss) \o Concat(Tail(ss))

Range(s) == {s[k] : k \in DOMAIN s}
In(x, s) == x \in Range(s)
\* list.index: the 1-based position of the first occurrence of x in s
Index(s, x) == CHOOSE k \in DOMAIN s : s[k] = x /\ \A m \in 1..(k - 1) : s[m] # x

RECURSIVE SortedSeq(_)
SortedSeq(S) ==
    IF S = {} THEN <<>>
    ELSE LET m == CHOOSE x \in S : \A y \in S : x <= y
         IN  <<m>> \o SortedSeq(S \ {m})

\* the iteration order of a dictionary whose keys are the small integers S
DictOrder(S) == SortedSeq(S)

MaxOf(S) == CHOOSE x \in S : \A y \in S : y <= x
MinOf(S) == CHOOSE x \in S : \A y \in S : x <= y

\* ------------------------------------------------------------ W.asymmetry
\* an edge check that compares the two values whatever the nonzero flag says
AsymmetryOfEdgeStrict(nb, w, nonzero, i, pos) ==
    LET j == nb[i][pos]
        wij == w[i][pos]
    IN  IF In(i, nb[j]) /\ Index(nb[j], i) <= Len(w[j])
        THEN IF wij # w[j][Index(nb[j], i)]
             THEN << <<<<i, j>>, <<j, i>>>> >>
             ELSE <<>>
        ELSE << <<<<i, j>>, <<>>>> >>

\* the entries one directed edge (i, pos) contributes: ((i,j),()) when the
\* lookup of the reciprocal weight raises (i is not listed by j, or the weight
\* list of j is too short), ((i,j),(j,i)) on a strict value mismatch
AsymmetryOfEdge(nb, w, nonzero, i, pos) ==
    LET j == nb[i][pos]
        wij == w[i][pos]
    IN  IF In(i, nb[j]) /\ Index(nb[j], i) <= Len(w[j])
        THEN IF ~nonzero /\ wij # w[j][Index(nb[j], i)]
             THEN << <<<<i, j>>, <<j, i>>>> >>
             ELSE <<>>
        ELSE << <<<<i, j>>, <<>>>> >>

\* an asymmetry that reports value mismatches only and drops the entries of
\* edges whose reciprocal edge is missing
asymmetryOfValues(nb, w, nonzero) ==
    LET ids == DictOrder(DOMAIN nb)
    IN  SelectSeq(
            Concat([k \in DOMAIN ids |->
                Concat([pos \in DOMAIN nb[ids[k]] |->
                    AsymmetryOfEdge(nb, w, nonzero, ids[k], pos)])]),
            LAMBDA e : e[2] # <<>>)

\* for i,neighbors in self.neighbors.iteritems(): for pos,j in enumerate(neighbors)
asymmetry(nb, w, nonzero) ==
    LET ids == DictOrder(DOMAIN nb)
    IN  Concat([k \in DOMAIN ids |->
            Concat([pos \in DOMAIN nb[ids[k]] |->
                AsymmetryOfEdge(nb, w, nonzero, ids[k], pos)])])

\* ------------------------------------------------------ W._characteristics
\* the directed edges visited by "for i in self._id_order: for j in neighbors_i"
EdgesVisited(nb, order) ==
    Concat([k \in DOMAIN order |->
        [p \in DOMAIN nb[order[k]] |-> <<order[k], nb[order[k]][p]>>]])

\* wij=w_i[neighbors_i.index(j)]
Wij(nb, w, i, j) == w[i][Index(nb[i], j)]
\* wji=w_j[neighbors_j.index(i)] if i in neighbors_j, else 0
Wji(nb, w, i, j) == IF In(i, nb[j]) THEN w[j][Index(nb[j], i)] ELSE Zero

SumS0(nb, w, edges) ==
    SumSeq([e \in DOMAIN edges |-> Wij(nb, w, edges[e][1], edges[e][2])])

SumS1(nb, w, edges) ==
    RDiv(SumSeq([e \in DOMAIN edges |->
            LET v == RAdd(Wij(nb, w, edges[e][1], edges[e][2]),
                          Wji(nb, w, edges[e][1], edges[e][2]))
            IN  RMul(v, v)]),
         Rat(2))

\* col_sum[i]+row_sum[i], accumulated over every visit of an edge leaving i
RowPlusCol(nb, w, edges, i) ==
    SumSeq([e \in DOMAIN edges |->
        IF edges[e][1] = i
        THEN RAdd(Wij(nb, w, i, edges[e][2]), Wji(nb, w, i, edges[e][2]))
        ELSE Zero])

SumS2(nb, w, edges) ==
    LET keys == DictOrder({edges[e][1] : e \in DOMAIN edges})
    IN  SumSeq([k \in DOMAIN keys |->
            LET t == RowPlusCol(nb, w, edges, keys[k]) IN RMul(t, t)])

\* zip(bin,ct) of np.histogram(cardinalities,range(min,max+2))
Histogram(cards, lo, hi) ==
    [b \in 1..(hi - lo + 1) |->
        <<lo + b - 1, Cardinality({k \in DOMAIN cards : cards[k] = lo + b - 1})>>]

\* np.std: the square root of the mean squared deviation from the mean
StdDev(cards) ==
    LET m == RDiv(Rat(SumInts(cards)), Rat(Len(cards)))
        dev == [k \in DOMAIN cards |->
                   LET d == RAdd(Rat(cards[k]), RMul(Rat(-1), m)) IN RMul(d, d)]
    IN  Sqrt(RDiv(SumSeq(dev), Rat(Len(cards))))

\* everything _characteristics stores on the object
Characteristics(nb, w, order) ==
    LET edges == EdgesVisited(nb, order)
        n == Cardinality(DOMAIN w)
        cardinalities == [i \in Range(order) |-> Len(nb[i])]
        keys == DictOrder(DOMAIN cardinalities)
        cards == [k \in DOMAIN keys |-> cardinalities[keys[k]]]
        nonzero == Len(edges)
        lo == MinOf(Range(cards))
        hi == MaxOf(Range(cards))
    IN  [ s0 |-> SumS0(nb, w, edges),
          s1 |-> SumS1(nb, w, edges),
          s2 |-> SumS2(nb, w, edges),
          cardinalities |-> cardinalities,
          max_neighbors |-> hi,
          min_neighbors |-> lo,
          sd |-> StdDev(cards),
          mean_neighbors |-> RDiv(Rat(SumInts(cards)), Rat(n)),
          n |-> n,
          pct_nonzero |-> RDiv(Rat(nonzero), Rat(n * n)),
          nonzero |-> nonzero,
          asymmetric |-> IF asymmetry(nb, w, TRUE) # <<>> THEN 1 ELSE 0,
          islands |-> SelectSeq(keys, LAMBDA i : cardinalities[i] = 0),
          histogram |-> Histogram(cards, lo, hi) ]

\* --------------------------------------------------- W.set_transform parts
\* value.upper() on the names the model assigns
Upper(value) ==
    CASE value = "b" -> "B"
      [] value = "r" -> "R"
      [] value = "d" -> "D"
      [] value = "v" -> "V"
      [] value = "o" -> "O"
      [] value = "x" -> "X"
      [] OTHER -> value

\* a row standardization that divides by the sum of all weights, as the
\* doubly-standardized transformation does
RowStandardizeByTotal(w) ==
    LET ids == SortedSeq(DOMAIN w)
        total == SumSeq([k \in DOMAIN ids |-> SumSeq(w[ids[k]])])
    IN  [i \in DOMAIN w |-> [k \in DOMAIN w[i] |-> RDiv(w[i][k], total)]]

\* a row standardization that divides by the number of neighbors, not by the
\* row sum
RowStandardizeByCount(w) ==
    [i \in DOMAIN w |->
        [k \in DOMAIN w[i] |-> RDiv(w[i][k], Rat(Len(w[i])))]]

\* weights[i]=[wij/row_sum for wij in wijs]
RowStandardize(w) ==
    [i \in DOMAIN w |->
        [k \in DOMAIN w[i] |-> RDiv(w[i][k], SumSeq(w[i]))]]

\* wij/row_sum divides by zero: a non-empty row whose weights sum to zero
RowStandardizeRaises(w) ==
    \E i \in DOMAIN w : w[i] # <<>> /\ SumSeq(w[i]) = Zero

\* ws=1.0/s0; weights[i]=[wij*ws for wij in wijs]
DoublyStandardize(w, s0) ==
    LET ws == RDiv(One, s0)
    IN  [i \in DOMAIN w |-> [k \in DOMAIN w[i] |-> RMul(w[i][k], ws)]]

\* 1.0/s0 divides by zero
DoublyStandardizeRaises(s0) == s0 = Zero

\* weights[i]=[1.0 for wij in wijs]
Binary(w) == [i \in DOMAIN w |-> [k \in DOMAIN w[i] |-> One]]

\* q[i] = math.sqrt(sum([wij*wij for wij in wijs]))
VarQ(w, i) == Sqrt(SumSeq([k \in DOMAIN w[i] |-> RMul(w[i][k], w[i][k])]))
\* s[i] = [wij / q[i] for wij in wijs]
VarS(w, i) == [k \in DOMAIN w[i] |-> RDiv(w[i][k], VarQ(w, i))]
\* Q+=sum([si for si in s[i]])
VarQTotal(w) ==
    LET ids == DictOrder(DOMAIN w)
    IN  SumSeq([k \in DOMAIN ids |-> SumSeq(VarS(w, ids[k]))])

\* wij / q[i] or self.n/Q divides by zero
VarianceStabilizeRaises(w) ==
    \/ \E i \in DOMAIN w : w[i] # <<>> /\ VarQ(w, i) = Zero
    \/ VarQTotal(w) = Zero

\* nQ=self.n/Q; weights[i] = [ w*nQ for w in s[i]]
VarianceStabilize(w, n) ==
    LET nQ == RDiv(Rat(n), VarQTotal(w))
    IN  [i \in DOMAIN w |->
            [k \in DOMAIN w[i] |-> RMul(VarS(w, i)[k], nQ)]]

\* a memoization that writes through to the original weights as well, as a
\* transformation done in place on self.weights would
MemoizeInPlace(t, value, w) ==
    IF value \in {"B", "R", "D"} THEN (value :> w) @@ ("O" :> w) @@ t ELSE t

\* self.transformations[value]=weights (the B, R and D branches only)
Memoize(t, value, w) ==
    IF value \in {"B", "R", "D"} THEN (value :> w) @@ t ELSE t

\* self.transformations.has_key(value)
HasKey(t, value) == value \in DOMAIN t

\* self._transform = value, the first statement after value.upper()
RecordTransform(old, value) == value

\* --------------------------------------------------------------- the state
VARIABLES
    neighbors,          \* self.neighbors: id -> list of neighbor ids
    weights,            \* self.weights: id -> list of weights
    transformations,    \* self.transformations: name -> weights mapping
    transform,          \* self._transform: "None" or the last name assigned
    id_order,           \* self._id_order
    id_order_set,       \* self._id_order_set
    idx,                \* self._idx, the container's own scan position
    neighbors_0,        \* self.__neighbors_0: <<"False">> or <<"dict", offsets>>
    neighbor_0_ids,     \* self.neighbor_0_ids: "unset" or "{}"
    characteristics,    \* what _characteristics stored last
    call,               \* the last call: its operation, what it raised, printed
    sessions            \* the _W_iter objects created by __iter__

vars == <<neighbors, weights, transformations, transform, id_order,
          id_order_set, idx, neighbors_0, neighbor_0_ids, characteristics,
          call, sessions>>

Returned(op) == [op |-> op, raised |-> "none", printed |-> ""]
Raised(op, exc) == [op |-> op, raised |-> exc, printed |-> ""]

\* ---------------------------------------------------------- construction
\* a weights argument written with integers, as rationals
Floats(w) == [i \in DOMAIN w |-> [k \in DOMAIN w[i] |-> Rat(w[i][k])]]

\* weights[key] = [1.] * len(neighbors[key])
DefaultWeights(nb) == [i \in DOMAIN nb |-> [k \in DOMAIN nb[i] |-> One]]

Chain == (0 :> <<1>>) @@ (1 :> <<0, 2>>) @@ (2 :> <<1>>)
Pair == (0 :> <<1>>) @@ (1 :> <<0>>)
Star == (0 :> <<1, 2>>) @@ (1 :> <<0>>) @@ (2 :> <<0>>)
WithIsland == (0 :> <<1>>) @@ (1 :> <<>>)
Gap == (0 :> <<1, 2>>) @@ (1 :> <<>>) @@ (2 :> <<>>)

\* an id no container knows
UnknownId == 9

\* the arguments W(neighbors, weights, id_order) is constructed with; <<>> is
\* None, <<x>> is the argument x
Constructions ==
    { [neighbors |-> Chain, weights |-> <<>>, id_order |-> <<>>],
      [neighbors |-> Star,
       weights |-> << (0 :> <<1, -1>>) @@ (1 :> <<1>>) @@ (2 :> <<1>>) >>,
       id_order |-> <<>>],
      [neighbors |-> Gap,
       weights |-> << (0 :> <<1, 3>>) @@ (1 :> <<>>) @@ (2 :> <<>>) >>,
       id_order |-> <<>>],
      [neighbors |-> Pair, weights |-> <<>>, id_order |-> << <<1, 0>> >>],
      [neighbors |-> Pair, weights |-> <<>>, id_order |-> << <<0>> >>],
      [neighbors |-> Pair,
       weights |-> << (0 :> <<2>>) @@ (1 :> <<1>>) >>, id_order |-> <<>>],
      [neighbors |-> Pair,
       weights |-> << (0 :> <<1>>) @@ (1 :> <<-1>>) >>, id_order |-> <<>>],
      [neighbors |-> Pair,
       weights |-> << (0 :> <<0>>) @@ (1 :> <<2>>) >>, id_order |-> <<>>],
      [neighbors |-> WithIsland, weights |-> <<>>, id_order |-> <<>>] }

\* W.__init__
InitOf(c) ==
    LET w == IF c.weights = <<>> THEN DefaultWeights(c.neighbors)
             ELSE Floats(c.weights[1])
        order == IF c.id_order = <<>> THEN SortedSeq(DOMAIN c.neighbors)
                 ELSE c.id_order[1]
    IN  /\ neighbors = c.neighbors
        /\ weights = w
        /\ transformations = ("O" :> w)
        /\ id_order = order
        /\ id_order_set = (c.id_order # <<>>)
        /\ neighbors_0 = <<"False">>
        /\ neighbor_0_ids = "unset"
        /\ idx = 0
        /\ characteristics = Characteristics(c.neighbors, w, order)
        /\ transform = "None"
        /\ call = Returned("__init__")
        /\ sessions = <<>>

Init == \E c \in Constructions : InitOf(c)

\* ---------------------------------------------------------- W.set_transform
\* the names assigned to transform: the five supported ones, one of them in
\* lower case too, and one unsupported
TransformInputs == {"B", "R", "D", "V", "O", "r", "x"}

Unsupported == "unsupported weights transformation"

\* what set_transform(value) leaves behind, from the current state
TransformOutcome(value) ==
    LET v == Upper(value)
        now == [ transform |-> RecordTransform(transform, v),
                 weights |-> weights,
                 transformations |-> transformations,
                 characteristics |-> characteristics,
                 call |-> Returned("set_transform") ]
        zero == Raised("set_transform", "ZeroDivisionError")
        switched(w) ==
            [now EXCEPT !.weights = w,
                        !.transformations = Memoize(transformations, v, w),
                        !.characteristics = Characteristics(neighbors, w, id_order)]
        fresh == Characteristics(neighbors, weights, id_order)
    IN  IF HasKey(transformations, v)
        THEN [now EXCEPT !.weights = transformations[v],
                         !.characteristics =
                             Characteristics(neighbors, transformations[v], id_order)]
        ELSE CASE v = "R" ->
                    IF RowStandardizeRaises(weights)
                    THEN [now EXCEPT !.call = zero]
                    ELSE switched(RowStandardize(weights))
               [] v = "D" ->
                    \* self._characteristics() runs before s0 is read
                    IF DoublyStandardizeRaises(fresh.s0)
                    THEN [now EXCEPT !.characteristics = fresh, !.call = zero]
                    ELSE switched(DoublyStandardize(weights, fresh.s0))
               [] v = "B" -> switched(Binary(weights))
               [] v = "V" ->
                    IF VarianceStabilizeRaises(weights)
                    THEN [now EXCEPT !.call = zero]
                    ELSE switched(VarianceStabilize(weights, characteristics.n))
               [] OTHER ->
                    [now EXCEPT !.call =
                        [op |-> "set_transform", raised |-> "none",
                         printed |-> Unsupported]]

\* the bound on the magnitudes explored
Small(w) ==
    \A i \in DOMAIN w : \A k \in DOMAIN w[i] :
        Abs(w[i][k][1]) <= MaxTerm /\ w[i][k][2] <= MaxTerm

set_transform(value) ==
    \E r \in {TransformOutcome(value)} :
        /\ Small(r.weights)
        /\ transform' = r.transform
        /\ weights' = r.weights
        /\ transformations' = r.transformations
        /\ characteristics' = r.characteristics
        /\ call' = r.call
        /\ UNCHANGED <<neighbors, id_order, id_order_set, idx, neighbors_0,
                       neighbor_0_ids, sessions>>

\* --------------------------------------------------------- W.__set_id_order
\* the sequences assigned to id_order: the sorted ids, a rotation of them, the
\* sorted ids with the first repeated, with the last missing, with an unknown id
Rotated == LET s == SortedSeq(DOMAIN neighbors) IN Tail(s) \o <<Head(s)>>

OrderInputs ==
    LET s == SortedSeq(DOMAIN neighbors)
    IN  { s, Rotated, s \o <<Head(s)>>,
          SubSeq(s, 1, Len(s) - 1), s \o <<UnknownId>> }

\* set(self._id_order) == set(ordered_ids)
OrderAligned(current, ordered_ids) == Range(current) = Range(ordered_ids)

\* an assignment that stores the new order and keeps the offsets cached under
\* the old one
set_id_order_keeping_offsets(ordered_ids) ==
    IF OrderAligned(id_order, ordered_ids)
    THEN /\ id_order' = ordered_ids
         /\ idx' = 0
         /\ id_order_set' = TRUE
         /\ neighbor_0_ids' = "{}"
         /\ call' = Returned("set_id_order")
         /\ UNCHANGED <<neighbors, weights, transformations, transform,
                        neighbors_0, characteristics, sessions>>
    ELSE /\ call' = Raised("set_id_order", "Exception")
         /\ UNCHANGED <<neighbors, weights, transformations, transform,
                        id_order, id_order_set, idx, neighbors_0,
                        neighbor_0_ids, characteristics, sessions>>

set_id_order(ordered_ids) ==
    IF OrderAligned(id_order, ordered_ids)
    THEN /\ id_order' = ordered_ids
         /\ idx' = 0
         /\ id_order_set' = TRUE
         /\ neighbor_0_ids' = "{}"
         /\ neighbors_0' = <<"False">>
         /\ call' = Returned("set_id_order")
         /\ UNCHANGED <<neighbors, weights, transformations, transform,
                        characteristics, sessions>>
    ELSE /\ call' = Raised("set_id_order", "Exception")
         /\ UNCHANGED <<neighbors, weights, transformations, transform,
                        id_order, id_order_set, idx, neighbors_0,
                        neighbor_0_ids, characteristics, sessions>>

\* --------------------------------------------------------- W.neighbor_offsets
\* if self.__neighbors_0: a non-empty dictionary
Truthy(cache) == cache[1] = "dict" /\ DOMAIN cache[2] # {}

\* [self._id_order.index(neigh) for neigh in self.neighbors[id]], 0-based
OffsetsOf(nb, order, id) ==
    [k \in DOMAIN nb[id] |-> Index(order, nb[id][k]) - 1]

\* the ids, in dictionary order, whose list is filled before index() raises
OffsetsFilled(nb, order) ==
    LET ids == DictOrder(DOMAIN nb)
        bad == {k \in DOMAIN ids : \E j \in Range(nb[ids[k]]) : ~In(j, order)}
    IN  IF bad = {} THEN DOMAIN nb
        ELSE {ids[k] : k \in 1..(MinOf(bad) - 1)}

neighbor_offsets ==
    /\ IF Truthy(neighbors_0)
       THEN /\ neighbors_0' = neighbors_0
            /\ call' = Returned("neighbor_offsets")
       ELSE \E filled \in {OffsetsFilled(neighbors, id_order)} :
                /\ neighbors_0' =
                      <<"dict", [id \in filled |-> OffsetsOf(neighbors, id_order, id)]>>
                /\ call' = IF filled = DOMAIN neighbors
                           THEN Returned("neighbor_offsets")
                           ELSE Raised("neighbor_offsets", "ValueError")
    /\ UNCHANGED <<neighbors, weights, transformations, transform, id_order,
                   id_order_set, idx, neighbor_0_ids, characteristics, sessions>>

\* ------------------------------------------------- W.__getitem__, W.__iter__
\* dict(zip(self.neighbors[key],self.weights[key])): zip stops at the shorter
\* list and a repeated neighbor keeps its last weight
GetItem(nb, w, key) ==
    LET len == IF Len(nb[key]) < Len(w[key]) THEN Len(nb[key]) ELSE Len(w[key])
    IN  [j \in {nb[key][k] : k \in 1..len} |->
            w[key][MaxOf({k \in 1..len : nb[key][k] = j})]]

\* _W_iter.__init__: the session's own length and position
NewSession(order) ==
    [n |-> Len(order), idx |-> 0, out |-> <<>>, stopped |-> FALSE]

\* one scan position shared by every session: that of the first one
CursorShared(session) == sessions[1].idx

\* the position _W_iter.next reads and advances
Cursor(session) == session.idx

\* W.__iter__: return _W_iter(self)
iter ==
    /\ Len(sessions) < MaxSessions
    /\ sessions' = Append(sessions, NewSession(id_order))
    /\ call' = Returned("__iter__")
    /\ UNCHANGED <<neighbors, weights, transformations, transform, id_order,
                   id_order_set, idx, neighbors_0, neighbor_0_ids,
                   characteristics>>

\* _W_iter.next; out holds what the session yielded in its current pass
next(s) ==
    /\ IF Cursor(sessions[s]) >= sessions[s].n
       THEN /\ sessions' = [sessions EXCEPT ![s].idx = 0, ![s].stopped = TRUE]
            /\ call' = Raised("next", "StopIteration")
       ELSE \E value \in {GetItem(neighbors, weights,
                                   id_order[Cursor(sessions[s]) + 1])} :
                /\ sessions' = [sessions EXCEPT
                        ![s].idx = Cursor(sessions[s]) + 1,
                        ![s].out = IF sessions[s].stopped THEN <<value>>
                                   ELSE Append(sessions[s].out, value),
                        ![s].stopped = FALSE]
                /\ call' = Returned("next")
    /\ UNCHANGED <<neighbors, weights, transformations, transform, id_order,
                   id_order_set, idx, neighbors_0, neighbor_0_ids,
                   characteristics>>

\* ------------------------------------------------------------ W.asymmetry
\* a call of w.asymmetry(nonzero): the list it returns is kept with the call
call_asymmetry(nonzero) ==
    /\ call' = [op |-> "asymmetry", raised |-> "none", printed |-> "",
                nonzero |-> nonzero,
                returned |-> asymmetry(neighbors, weights, nonzero)]
    /\ UNCHANGED <<neighbors, weights, transformations, transform, id_order,
                   id_order_set, idx, neighbors_0, neighbor_0_ids,
                   characteristics, sessions>>

\* ------------------------------------------------------- the specifications
\* transform switches interleaved with id_order assignments (the rotation,
\* which no transformation can tell from the sorted order, is left to SpecOrder)
Next ==
    \/ \E value \in TransformInputs \ {"r"} : set_transform(value)
    \/ \E ordered_ids \in OrderInputs \ {Rotated} : set_id_order(ordered_ids)

Spec == Init /\ [][Next]_vars

\* transform switches alone, on the containers whose id_order argument is
\* absent or a permutation of the ids
NextTransform == \E value \in TransformInputs : set_transform(value)

Aligned(c) ==
    \/ c.id_order = <<>>
    \/ /\ Range(c.id_order[1]) = DOMAIN c.neighbors
       /\ Len(c.id_order[1]) = Cardinality(DOMAIN c.neighbors)

InitAligned == \E c \in {x \in Constructions : Aligned(x)} : InitOf(c)

SpecTransform == InitAligned /\ [][NextTransform]_vars

\* id_order assignments and reads of neighbor_offsets, with switches between
\* the row-standardized and the original weights
NextOrder ==
    \/ \E ordered_ids \in OrderInputs : set_id_order(ordered_ids)
    \/ neighbor_offsets
    \/ \E value \in {"R", "O"} : set_transform(value)

SpecOrder == Init /\ [][NextOrder]_vars

\* iteration sessions, with transform switches between their steps and no
\* id_order assignment
NextIter ==
    \/ iter
    \/ \E s \in DOMAIN sessions : next(s)
    \/ \E value \in {"R", "O"} : set_transform(value)

SpecIter == Init /\ [][NextIter]_vars

\* constructions whose weight lists do not match the neighbor lists: one list
\* too long, one too short
Malformed ==
    { [neighbors |-> Pair,
       weights |-> << (0 :> <<1, 2>>) @@ (1 :> <<1>>) >>, id_order |-> <<>>],
      [neighbors |-> Pair,
       weights |-> << (0 :> <<1>>) @@ (1 :> <<>>) >>, id_order |-> <<>>] }

\* W.__init__ raises IndexError, from wij=self.weights[i][pos] in the asymmetry
\* call of _characteristics at the latest, when a weight list is too short
ConstructionRaises(c) ==
    /\ c.weights # <<>>
    /\ \E i \in DOMAIN c.neighbors : Len(c.weights[1][i]) < Len(c.neighbors[i])

\* every construction that returns a container, the malformed ones included,
\* followed by transform switches
InitAny ==
    \E c \in Constructions \cup Malformed : ~ConstructionRaises(c) /\ InitOf(c)

SpecConstruction == InitAny /\ [][NextTransform]_vars

\* the id_order assignments and reads of SpecOrder, on the containers whose
\* id_order argument is absent or a permutation of the ids
SpecOrderAligned == InitAligned /\ [][NextOrder]_vars

\* calls of asymmetry, strict and not, with id_order assignments and transform
\* switches between them
NextAsymmetry ==
    \/ \E nonzero \in BOOLEAN : call_asymmetry(nonzero)
    \/ \E ordered_ids \in OrderInputs : set_id_order(ordered_ids)
    \/ \E value \in {"R", "D", "O"} : set_transform(value)

SpecAsymmetry == Init /\ [][NextAsymmetry]_vars

\* ------------------------------------------------------------------ claims
Names == {"B", "R", "D", "V", "O"}
Ids == DOMAIN neighbors

\* the sum of every entry of a weights mapping
TotalOf(w) ==
    LET ids == SortedSeq(DOMAIN w)
    IN  SumSeq([k \in DOMAIN ids |-> SumSeq(w[ids[k]])])

\* C1: in every state, from construction on and through every transform and
\* id_order assignment, s0 is the sum of all current weights, cardinalities
\* gives every id the length of its neighbor list, and islands is exactly the
\* set of ids without neighbors.
C1_CharacteristicsCurrent ==
    /\ characteristics.s0 = TotalOf(weights)
    /\ DOMAIN characteristics.cardinalities = Ids
    /\ \A i \in DOMAIN characteristics.cardinalities :
           characteristics.cardinalities[i] = Len(neighbors[i])
    /\ Range(characteristics.islands) = {i \in Ids : neighbors[i] = <<>>}

\* C2: the entry "O" is the weights captured at construction and no transform
\* switch alters it; assigning "O" makes weights that entry again.
C2_RoundTrip ==
    /\ transformations["O"] = weights
    /\ [][/\ transformations'["O"] = transformations["O"]
          /\ (call'.op = "set_transform" /\ transform' = "O")
                => weights' = transformations["O"]]_vars

\* C2 witness: the original weights are back after a row standardization that
\* had changed them
C2_Witness ==
    /\ transform = "O" /\ call.op = "set_transform"
    /\ HasKey(transformations, "R") /\ transformations["R"] # weights
    /\ weights = transformations["O"]

\* C3: an id_order assignment whose element set differs from the id set raises
\* and leaves id_order, the user-set flag, the cached offsets, weights, the
\* transform name and the characteristics as they were.
C3_MisalignedOrderRejected ==
    [][\A o \in OrderInputs :
          (set_id_order(o) /\ Range(o) # Ids)
              => /\ call'.raised = "Exception"
                 /\ UNCHANGED <<id_order, id_order_set, neighbors_0, weights,
                                transform, characteristics>>]_vars

\* C4: assigning an unsupported transform name leaves weights, the recorded
\* transform name, the transformations cache and the characteristics unchanged.
C4_UnsupportedLeavesState ==
    [][\A v \in TransformInputs :
          (set_transform(v) /\ Upper(v) \notin Names)
              => UNCHANGED <<weights, transform, transformations,
                             characteristics>>]_vars

\* C5: a mutating call that raises leaves weights, the transform name, the
\* transformations cache, the characteristics and the ordering exactly as
\* before; one that completes leaves characteristics computed from the weights
\* it leaves.
C5_AllOrNothing ==
    [][/\ call'.raised # "none"
            => UNCHANGED <<weights, transform, transformations,
                           characteristics, id_order, id_order_set>>
       /\ (call'.raised = "none" /\ call'.op = "set_transform"
             /\ call'.printed = "")
            => characteristics'.s0 = TotalOf(weights')]_vars

\* the s0 that _characteristics accumulates: the row sums of the ids of
\* id_order, each as often as id_order lists it
VisitedTotal(w, order) == SumSeq([k \in DOMAIN order |-> SumSeq(w[order[k]])])

C7_Memoized ==
    [][(call'.op = "set_transform" /\ call'.raised = "none"
          /\ transform' \in {"B", "R", "D", "V"})
          => /\ HasKey(transformations', transform')
             /\ transformations'[transform'] = weights'
             /\ HasKey(transformations, transform')
                  => transformations'[transform'] = transformations[transform']
             /\ characteristics'.s0 = TotalOf(weights')]_vars

\* C8: selecting the same name of B, R, D, V, O twice in a row leaves weights
\* and every characteristic after the second call as after the first.
C8_Idempotent ==
    [][(call.op = "set_transform" /\ call'.op = "set_transform"
          /\ transform \in Names /\ transform' = transform)
          => weights' = weights /\ characteristics' = characteristics]_vars

\* C9: in every state the elements of id_order are exactly the keys of
\* neighbors.
C9_OrderCoversIds == Range(id_order) = Ids

\* the mapping W[i]: each neighbor of i to the weight at its position
MappingOf(i) ==
    [j \in Range(neighbors[i]) |-> weights[i][Index(neighbors[i], j)]]

\* how many mappings a session has yielded in its current pass
Yielded(session) == IF session.stopped THEN 0 ELSE Len(session.out)

\* C10: a step of one session leaves every other session as it was; it yields
\* the mapping of the id at the position the session itself has reached in
\* id_order, and signals exhaustion exactly after the last id; a new session
\* starts at the first id.
C10_SessionsIndependent ==
    [][\A s \in DOMAIN sessions :
          sessions'[s] # sessions[s]
            => /\ \A t \in DOMAIN sessions \ {s} : sessions'[t] = sessions[t]
               /\ IF Yielded(sessions[s]) < Len(id_order)
                  THEN /\ ~sessions'[s].stopped
                       /\ Len(sessions'[s].out) = Yielded(sessions[s]) + 1
                       /\ sessions'[s].out[Yielded(sessions[s]) + 1]
                            = MappingOf(id_order[Yielded(sessions[s]) + 1])
                       /\ \A k \in 1..Yielded(sessions[s]) :
                            sessions'[s].out[k] = sessions[s].out[k]
                  ELSE /\ sessions'[s].stopped
                       /\ sessions'[s].out = sessions[s].out]_vars

\* C10 witness: two sessions at different positions, the first exhausted after
\* a full pass and the second part-way through its own
C10_Witness ==
    /\ Len(sessions) = 2
    /\ sessions[1].stopped /\ Len(sessions[1].out) = Len(id_order)
    /\ ~sessions[2].stopped /\ Len(sessions[2].out) = 1
    /\ Len(id_order) > 1

\* C11: after a read of neighbor_offsets, whatever assignments, switches and
\* reads came before, the read returned a dictionary that gives, for every id
\* and every k, the position within the current id_order of the k-th neighbor
\* of the id.
C11_OffsetsCoherent ==
    call.op = "neighbor_offsets"
        => /\ call.raised = "none"
           /\ neighbors_0[1] = "dict"
           /\ DOMAIN neighbors_0[2] = Ids
           /\ \A id \in Ids :
                /\ Len(neighbors_0[2][id]) = Len(neighbors[id])
                /\ \A k \in DOMAIN neighbors[id] :
                     /\ neighbors_0[2][id][k] \in 0..(Len(id_order) - 1)
                     /\ id_order[neighbors_0[2][id][k] + 1] = neighbors[id][k]

\* C12: in every state, nonzero is the sum of all cardinalities, the histogram
\* has one bin for every integer from min_neighbors to max_neighbors, in
\* order, and its counts sum to n, the number of ids.
C12_CountsConsistent ==
    LET ids == SortedSeq(DOMAIN characteristics.cardinalities)
        h == characteristics.histogram
    IN  /\ characteristics.nonzero
              = SumInts([k \in DOMAIN ids |-> characteristics.cardinalities[ids[k]]])
        /\ Len(h) = characteristics.max_neighbors - characteristics.min_neighbors + 1
        /\ \A b \in DOMAIN h : h[b][1] = characteristics.min_neighbors + b - 1
        /\ SumInts([b \in DOMAIN h |-> h[b][2]]) = Cardinality(Ids)
        /\ characteristics.n = Cardinality(Ids)

\* the directed edges of the container
Edges == {<<i, j>> \in Ids \X Ids : j \in Range(neighbors[i])}

\* the weight stored for the edge (i, j)
WeightOf(i, j) ==
    weights[i][CHOOSE k \in DOMAIN neighbors[i] : neighbors[i][k] = j]

\* C13: the list a call of asymmetry(nonzero) returns holds no entry twice and
\* nothing but entries of edges; for every edge (i,j) it holds ((i,j),()) iff i
\* is not a neighbor of j, and ((i,j),(j,i)) iff i is a neighbor of j, nonzero
\* is false and the two weights differ (so none when nonzero is true).
C13_AsymmetryEntries ==
    call.op = "asymmetry"
        => /\ Cardinality(Range(call.returned)) = Len(call.returned)
           /\ \A e \in Range(call.returned) :
                e[1] \in Edges /\ e[2] \in {<<>>, <<e[1][2], e[1][1]>>}
           /\ \A e \in Edges :
                /\ <<e, <<>>>> \in Range(call.returned)
                      <=> <<e[2], e[1]>> \notin Edges
                /\ <<e, <<e[2], e[1]>>>> \in Range(call.returned)
                      <=> /\ <<e[2], e[1]>> \in Edges
                          /\ ~call.nonzero
                          /\ WeightOf(e[1], e[2]) # WeightOf(e[2], e[1])

\* C13 witness: a strict call, made after a transform switch, that reported a
\* value mismatch on a reciprocated edge
C13_Witness ==
    /\ call.op = "asymmetry" /\ ~call.nonzero /\ transform = "R"
    /\ \E e \in Range(call.returned) : e[2] # <<>>

\* C14: in every state the asymmetric flag is false (0) iff every edge has its
\* reciprocal edge, and a call of asymmetry(nonzero=True) returns the empty
\* list iff the flag is false.
C14_FlagMatchesAsymmetry ==
    /\ characteristics.asymmetric = 0
          <=> \A e \in Edges : <<e[2], e[1]>> \in Edges
    /\ (call.op = "asymmetry" /\ call.nonzero)
          => (call.returned = <<>> <=> characteristics.asymmetric = 0)

\* C14 witness: after a transform switch the flag is set and a call with
\* nonzero=True returned entries
C14_Witness ==
    /\ call.op = "asymmetry" /\ call.nonzero /\ call.returned # <<>>
    /\ characteristics.asymmetric = 1
    /\ transform \in {"R", "D"}

\* the weight of the edge (i, j), 0 when j is not a neighbor of i
WeightOrZero(i, j) == IF <<i, j>> \in Edges THEN WeightOf(i, j) ELSE Zero

\* the sum of (w_ij + w_ji)^2 over the ordered pairs of a set
RECURSIVE SumOfSquares(_)
SumOfSquares(pairs) ==
    IF pairs = {} THEN Zero
    ELSE LET p == CHOOSE q \in pairs : TRUE
             v == RAdd(WeightOrZero(p[1], p[2]), WeightOrZero(p[2], p[1]))
         IN  RAdd(RMul(v, v), SumOfSquares(pairs \ {p}))

\* C15: in every state s1 is one half of the sum of (w_ij + w_ji)^2 over every
\* ordered pair (i,j) joined by an edge in either direction, a missing
\* direction counting as weight 0.
C15_S1OverEitherDirection ==
    RMul(Rat(2), characteristics.s1)
        = SumOfSquares(Edges \cup {<<e[2], e[1]>> : e \in Edges})

\* C16: after a transform assignment that selected R and completed, whatever
\* switches came before, the weights of every id that has a neighbor sum to 1.
C16_RowsSumToOne ==
    (call.op = "set_transform" /\ call.raised = "none" /\ transform = "R")
        => \A i \in Ids : neighbors[i] # <<>> => SumSeq(weights[i]) = One

\* C16 witness: R selected after D had changed the weights, on a
\* container with an id of several neighbors, and R changed them again
C16_Witness ==
    /\ call.op = "set_transform" /\ call.raised = "none" /\ transform = "R"
    /\ HasKey(transformations, "D")
    /\ \E i \in Ids : Len(neighbors[i]) > 1 /\ weights[i][1] # One
    /\ weights # transformations["O"] /\ weights # transformations["D"]

\* C17: after a transform assignment that selected D and completed, whatever
\* switches came before, the characteristic s0 is 1 and it is the sum of all
\* current weights.
C17_TotalIsOne ==
    (call.op = "set_transform" /\ call.raised = "none" /\ transform = "D")
        => characteristics.s0 = One /\ TotalOf(weights) = One

\* C18: no container exists whose neighbor list and weight list differ in
\* length for some id: construction fails on such arguments.
C18_ListsAligned == \A i \in Ids : Len(neighbors[i]) = Len(weights[i])

\* C19: in every state, after construction and after every accepted
\* assignment, id_order has as many elements as there are ids and every id
\* occurs in it exactly once.
C19_OrderIsPermutation ==
    /\ Len(id_order) = Cardinality(Ids)
    /\ \A i \in Ids : Cardinality({k \in DOMAIN id_order : id_order[k] = i}) = 1

\* where an id stands in id_order; past the end when id_order misses it
PlaceOf(i) ==
    IF In(i, id_order) THEN Index(id_order, i) ELSE Len(id_order) + 1

\* where the edge (i, j) stands in the neighbor list of i
NeighborPlaceOf(e) == Index(neighbors[e[1]], e[2])

\* C20: the entries a call of asymmetry returns come in the order of id_order
\* by their first id and, for one id, in the order of its neighbor list; so
\* after an accepted id_order assignment they follow the new order.
C20_EntriesFollowIdOrder ==
    call.op = "asymmetry"
        => \A a, b \in DOMAIN call.returned :
              a < b =>
                LET ea == call.returned[a][1]
                    eb == call.returned[b][1]
                IN  \/ PlaceOf(ea[1]) < PlaceOf(eb[1])
                    \/ /\ ea[1] = eb[1]
                       /\ NeighborPlaceOf(ea) < NeighborPlaceOf(eb)

\* C21: an id_order assignment that is accepted stores the assigned order,
\* sets the user-set flag, puts the scan position at the start and empties
\* the neighbor-offset cache; it leaves neighbors, weights, the transform
\* name, the transformations and every stored characteristic as they were.
C21_OrderAssignmentFrame ==
    [][(call'.op = "set_id_order" /\ call'.raised = "none")
          => /\ id_order' \in OrderInputs
             /\ id_order_set' = TRUE
             /\ idx' = 0
             /\ ~Truthy(neighbors_0')
             /\ UNCHANGED <<neighbors, weights, transform, transformations,
                            characteristics>>]_vars

\* C21 witness: an accepted assignment changed the order of a container that
\* is row-standardized, so that its characteristics are those of the switch
C21_Witness ==
    /\ call.op = "set_id_order" /\ call.raised = "none"
    /\ id_order # SortedSeq(Ids) /\ id_order_set
    /\ transform = "R" /\ weights = transformations["R"]
    /\ neighbors_0 = <<"False">>

\* the characteristics that depend on the graph structure alone, islands as
\* a set
StructureOf(c) ==
    [ cardinalities |-> c.cardinalities,
      islands |-> Range(c.islands),
      nonzero |-> c.nonzero,
      pct_nonzero |-> c.pct_nonzero,
      min_neighbors |-> c.min_neighbors,
      max_neighbors |-> c.max_neighbors,
      mean_neighbors |-> c.mean_neighbors,
      histogram |-> c.histogram,
      asymmetric |-> c.asymmetric ]

\* C22: a transform assignment, whatever the name and whether it completes,
\* leaves neighbors, id_order, the user-set flag and the cached neighbor
\* offsets as they were, and the structure-only characteristics have the same
\* values after it as before it.
C22_TransformFrame ==
    [][call'.op = "set_transform"
          => /\ UNCHANGED <<neighbors, id_order, id_order_set, neighbors_0>>
             /\ StructureOf(characteristics') = StructureOf(characteristics)]_vars
====
